---- MODULE Spec2Model ----
(***************************************************************************)
(* Model of src/main.py (boj-stat-visualizer).                             *)
(*                                                                         *)
(*   Spec      get_time_to_problem_id: the fetch / parse / merge loop of   *)
(*             one user.  A page is read the way _parse_time_to_problem_id *)
(*             reads it, one <tr> per step.  MAX_FETCH_SIZE is a user      *)
(*             config: a run has the shipped value or a small one, so that *)
(*             both halves of the while condition end runs.                *)
(*   SpecView  view_table over bounded maps, catalogs and clock readings.  *)
(***************************************************************************)
EXTENDS Integers, Sequences, FiniteSets, TLC

\* ------------------------------------------------------------------ bounds
MaxRows == 2          \* data rows (<tr> after the header) of one page
MaxSeqId == 2         \* submission sequence ids are 1..MaxSeqId
MaxProblemId == 2     \* problem ids are 1..MaxProblemId
MaxTime == 1          \* submission times are 1..MaxTime
SmallFetchSize == 1   \* a key bound small enough to be reached

\* ------------------------------------------------------- program constants
MAX_FETCH_PAGE == 5
MAX_FETCH_SIZE == 200

\* ---------------------------------------------------------------- the page
\* One cell of a row as the three statements of the try block see it:
\*   "int"     the expression evaluates to an integer v
\*   "nocell"  tds[i] or cssselect("a")[0] does not exist   (IndexError)
\*   "notext"  the element exists but its .text is None      (TypeError)
\*   "noattr"  the link exists without data-timestamp        (KeyError)
IntCell(v) == [k |-> "int", v |-> v]
BadCell(kind) == [k |-> kind, v |-> 0]

SeqCells == {BadCell("nocell"), BadCell("notext")} \cup {IntCell(i) : i \in 1..MaxSeqId}
PidCells == {BadCell("nocell"), BadCell("notext")} \cup {IntCell(i) : i \in 1..MaxProblemId}
TsCells == {BadCell("nocell"), BadCell("noattr")} \cup {IntCell(i) : i \in 1..MaxTime}

\* A row is told apart by the cells the try block gets to read: the third
\* cell is read only after the first gave an integer, the ninth only after
\* the third did.
Unread == BadCell("unread")

Rows ==
    {tr \in [seq : SeqCells, pid : PidCells \cup {Unread}, ts : TsCells \cup {Unread}] :
        /\ (tr.pid = Unread) <=> (tr.seq.k # "int")
        /\ (tr.ts = Unread) <=> (tr.seq.k # "int" \/ tr.pid.k # "int")}

\* The first statement of the try block that raises, and what it raises.
\* "ok" when the three assignments complete.
RowOutcome(tr) ==
    IF tr.seq.k = "nocell" THEN "IndexError"
    ELSE IF tr.seq.k = "notext" THEN "TypeError"
    ELSE IF tr.pid.k = "nocell" THEN "IndexError"
    ELSE IF tr.pid.k = "notext" THEN "TypeError"
    ELSE IF tr.ts.k = "nocell" THEN "IndexError"
    ELSE IF tr.ts.k = "noattr" THEN "KeyError"
    ELSE "ok"

\* --------------------------------------------------------------- dictionaries
EmptyDict == [t \in {} |-> 0]

Max(a, b) == IF a >= b THEN a ELSE b

\* defaultdict(lambda: 0)[key]
DefaultGet(d, key) == IF key \in DOMAIN d THEN d[key] ELSE 0

\* time_to_problem_id[submit_time] = max(time_to_problem_id[submit_time], problem_id)
DictPutMax(d, key, value) ==
    [t \in DOMAIN d \cup {key} |-> IF t = key THEN Max(DefaultGet(d, key), value) ELSE d[t]]

\* Variant: dict1.update(dict2), the later value winning.
MergeDictsOverwrite(dict1, dict2) ==
    [t \in DOMAIN dict1 \cup DOMAIN dict2 |->
        IF t \in DOMAIN dict2 THEN dict2[t] ELSE dict1[t]]

\* _merge_dicts(dict1, dict2): the value of dict1 after the call
MergeDicts(dict1, dict2) ==
    [t \in DOMAIN dict1 \cup DOMAIN dict2 |->
        IF t \in DOMAIN dict2
        THEN IF t \in DOMAIN dict1 THEN Max(dict1[t], dict2[t]) ELSE dict2[t]
        ELSE dict1[t]]

\* ---------------------------------------------------------------- the state
\* A cursor is <<>> (the "" of line 149, or a local not yet bound) or <<id>>.
NoCursor == <<>>

\* What the history remembers of a row: its first cell and whether it parsed.
RowNote(cell, ok) == [seq |-> cell, ok |-> ok]
NoRow == RowNote(BadCell("norow"), FALSE)

VARIABLES
    pc,                 \* "loop" | "parse" | "done" | "raised" | "view" | "viewed"
    max_fetch_size,     \* the configured MAX_FETCH_SIZE of this run
    time_to_problem_id, \* get_time_to_problem_id: the running map
    last_submit_id,     \* get_time_to_problem_id: the cursor
    left_page,          \* get_time_to_problem_id: the page budget
    trsLeft,            \* _parse: rows of the page not yet iterated
    data,               \* _parse: its local time_to_problem_id
    parse_last_id,      \* _parse: its local last_submit_id (NoCursor = unbound)
    error,              \* the exception that ended the run, "" if none
    \* history of the run
    fetches,            \* number of _get_page calls
    top,                \* the cursor argument of the latest _get_page call
    prevMalformed,      \* the page before the latest fetch ended on a row that
                        \* exposed a sequence id and was skipped
    lastRow,            \* latest row read of the current page
    anyOk,              \* some row of the current page was parsable
    observed,           \* <<time, problem_id>> of every parsable row read so far
    \* view_table
    user_statistics_list, \* its argument: per user, in dict order, [user, stats]
    now,                \* the clock read by _get_today
    problem_level_dict, \* the catalog _get_problem_level_dict loads
    set_order,          \* the iteration order of the day sets of this run
    table               \* what Console().print received, NoTable before

aggVars == <<pc, max_fetch_size, time_to_problem_id, last_submit_id, left_page,
             trsLeft, data, parse_last_id, error, fetches, top, prevMalformed,
             lastRow, anyOk, observed>>

viewVars == <<user_statistics_list, now, problem_level_dict, set_order, table>>

vars == <<aggVars, viewVars>>

NoTable == [headers |-> <<>>, rows |-> <<>>, printed |-> FALSE]

\* The view_table variables while get_time_to_problem_id runs.
ViewIdle ==
    /\ user_statistics_list = <<>>
    /\ now = 0
    /\ problem_level_dict = EmptyDict
    /\ set_order = "asc"
    /\ table = NoTable

Init ==
    /\ ViewIdle
    /\ pc = "loop"
    /\ max_fetch_size \in {SmallFetchSize, MAX_FETCH_SIZE}
    /\ time_to_problem_id = EmptyDict
    /\ last_submit_id = NoCursor
    /\ left_page = MAX_FETCH_PAGE
    /\ trsLeft = 0
    /\ data = EmptyDict
    /\ parse_last_id = NoCursor
    /\ error = ""
    /\ fetches = 0
    /\ top = NoCursor
    /\ prevMalformed = FALSE
    /\ lastRow = NoRow
    /\ anyOk = FALSE
    /\ observed = {}

\* Variant: left_page >= 0 in the while condition.
LoopCondOffByOne ==
    left_page >= 0 /\ Cardinality(DOMAIN time_to_problem_id) < max_fetch_size

\* The while condition of line 152.
LoopCond == left_page > 0 /\ Cardinality(DOMAIN time_to_problem_id) < max_fetch_size

\* Variant: last_submit_id bound only once the three cells of the row parsed.
BindOnlyParsedRows(tr, cur) == IF RowOutcome(tr) = "ok" THEN <<tr.seq.v>> ELSE cur

\* Line 115: the local last_submit_id after the try block has run on the row
\* tr, bound by its first statement when the first cell holds an integer.
BindLastSubmitId(tr, cur) == IF tr.seq.k = "int" THEN <<tr.seq.v>> ELSE cur

\* Lines 152-155 up to the for loop: one more page is fetched with the current
\* cursor, and _parse starts on it with fresh locals.
Fetch ==
    /\ pc = "loop"
    /\ LoopCond
    /\ left_page' = left_page - 1
    /\ fetches' = fetches + 1
    /\ top' = last_submit_id
    /\ prevMalformed' = (lastRow.seq.k = "int" /\ ~lastRow.ok)
    /\ \E n \in 0..MaxRows : trsLeft' = n
    /\ data' = EmptyDict
    /\ parse_last_id' = NoCursor
    /\ lastRow' = NoRow
    /\ anyOk' = FALSE
    /\ pc' = "parse"
    /\ UNCHANGED <<max_fetch_size, time_to_problem_id, last_submit_id, error,
                   observed, viewVars>>

\* Lines 111-124: one iteration of the for loop, over the row tr.  An
\* IndexError is caught (continue); any other exception leaves the function
\* and ends the run.
ParseRow ==
    /\ pc = "parse"
    /\ trsLeft > 0
    /\ \E tr \in Rows :
         LET out == RowOutcome(tr) IN
         /\ trsLeft' = trsLeft - 1
         /\ lastRow' = RowNote(tr.seq, out = "ok")
         /\ IF out = "ok"
            THEN /\ data' = DictPutMax(data, tr.ts.v, tr.pid.v)
                 /\ parse_last_id' = BindLastSubmitId(tr, parse_last_id)
                 /\ observed' = observed \cup {<<tr.ts.v, tr.pid.v>>}
                 /\ anyOk' = TRUE
                 /\ UNCHANGED <<pc, error>>
            ELSE IF out = "IndexError"
            THEN /\ parse_last_id' = BindLastSubmitId(tr, parse_last_id)
                 /\ UNCHANGED <<data, observed, anyOk, pc, error>>
            ELSE /\ pc' = "raised"
                 /\ error' = out
                 /\ data' = EmptyDict
                 /\ parse_last_id' = NoCursor
                 /\ UNCHANGED <<observed, anyOk>>
    /\ UNCHANGED <<max_fetch_size, time_to_problem_id, last_submit_id, left_page,
                   fetches, top, prevMalformed, viewVars>>

\* Line 126 and lines 155-156: _parse returns (or fails to, when its local
\* last_submit_id was never bound), the cursor advances and the page is merged.
ParseReturn ==
    /\ pc = "parse"
    /\ trsLeft = 0
    /\ IF parse_last_id = NoCursor
       THEN /\ pc' = "raised"
            /\ error' = "UnboundLocalError"
            /\ UNCHANGED <<time_to_problem_id, last_submit_id>>
       ELSE /\ last_submit_id' = parse_last_id
            /\ time_to_problem_id' = MergeDicts(time_to_problem_id, data)
            /\ pc' = "loop"
            /\ UNCHANGED error
    /\ data' = EmptyDict
    /\ parse_last_id' = NoCursor
    /\ UNCHANGED <<max_fetch_size, left_page, trsLeft, fetches, top, prevMalformed,
                   lastRow, anyOk, observed, viewVars>>

\* Line 158: the while condition is false and the map is returned.
Return ==
    /\ pc = "loop"
    /\ ~LoopCond
    /\ pc' = "done"
    /\ UNCHANGED <<max_fetch_size, time_to_problem_id, last_submit_id, left_page,
                   trsLeft, data, parse_last_id, error, fetches, top, prevMalformed,
                   lastRow, anyOk, observed, viewVars>>

Next == Fetch \/ ParseRow \/ ParseReturn \/ Return

Spec == Init /\ [][Next]_vars

\* =============================================================== view_table
\* ------------------------------------------------------------------ bounds
MaxViewTime == 3      \* submission instants a map of the report may hold
MaxNow == 4           \* clock readings tried: 0..MaxNow

\* ------------------------------------------------------- program constants
USER_IDS == <<"roeniss">>
START_DATE_FROM_TODAY == 7
MaxLevel == 30

\* pytz "Africa/Addis_Ababa": UTC+03:00 the whole year.
UtcOffset == 3 * 3600
SecondsPerDay == 24 * 3600

\* A datetime.date is modelled by its day number, 0 for 1970-01-01, so that
\* date - timedelta(days=i) is a subtraction.  The inputs lie around day
\* BaseDay: the instants of the maps 9 hours apart from its 00:00 UTC (two
\* on that day of the zone, the next ones on the day after), the clock
\* readings at 21:00 UTC (midnight in the zone) every other day from the
\* evening before.
BaseDay == 20000
ViewTimes == {BaseDay * SecondsPerDay + i * 9 * 3600 : i \in 1..MaxViewTime}
Nows == {(BaseDay + 2 * j - 1) * SecondsPerDay + 21 * 3600 : j \in 0..MaxNow}

\* LEVEL_REFERENCE, lines 34-66: the label of level i is LEVEL_REFERENCE[i + 1].
LEVEL_REFERENCE ==
    <<"NR", "B5", "B4", "B3", "B2", "B1", "S5", "S4", "S3", "S2", "S1",
      "G5", "G4", "G3", "G2", "G1", "P5", "P4", "P3", "P2", "P1",
      "D5", "D4", "D3", "D2", "D1", "R5", "R4", "R3", "R2", "R1">>

\* The value of dict.get(key) for a missing key.
None == -1

\* The catalogs tried: any part of the problem ids, each at the lowest or the
\* highest level.
Catalogs ==
    UNION {[S -> {0, MaxLevel}] : S \in SUBSET (1..MaxProblemId)}

\* The maps tried for one user.
ViewMaps == UNION {[S -> 1..MaxProblemId] : S \in SUBSET ViewTimes}

\* _parse_date: the calendar date of an epoch second under TIMEZONE.
ParseDate(date) == (date + UtcOffset) \div SecondsPerDay

\* _get_today, given the clock.
GetToday(clock) == ParseDate(clock)

\* Variant: range(0, START_DATE_FROM_TODAY), a window that starts today.
DaysFromToday(today) == [i \in 1..START_DATE_FROM_TODAY |-> today - (i - 1)]

\* The window of lines 220-222: range(1, START_DATE_FROM_TODAY + 1).
Days(today) == [i \in 1..START_DATE_FROM_TODAY |-> today - i]

\* datetime.date: month and day of month of a day number (proleptic
\* Gregorian calendar), and its weekday, Monday = 0.
MonthDay(day) ==
    LET z == day + 719468
        era == z \div 146097
        doe == z - era * 146097
        yoe == (doe - doe \div 1460 + doe \div 36524 - doe \div 146096) \div 365
        doy == doe - (365 * yoe + yoe \div 4 - yoe \div 100)
        mp == (5 * doy + 2) \div 153
    IN  [m |-> IF mp < 10 THEN mp + 3 ELSE mp - 9,
         d |-> doy - (153 * mp + 2) \div 5 + 1]

Weekday(day) == (day + 3) % 7

\* day.strftime("%m-%d (%a)"), line 227, as <<month, day of month, weekday>>.
Strftime(day) == <<MonthDay(day).m, MonthDay(day).d, Weekday(day)>>

\* _group_problem_ids_per_day, lines 206-215.
GroupProblemIdsPerDay(stats) ==
    [date \in {ParseDate(t) : t \in DOMAIN stats} |->
        {stats[t] : t \in {u \in DOMAIN stats : ParseDate(u) = date}}]

\* A set listed in the order its iteration yields: ascending or descending.
RECURSIVE Ascending(_)
Ascending(S) ==
    IF S = {} THEN <<>>
    ELSE LET m == CHOOSE x \in S : \A y \in S : x <= y
         IN  <<m>> \o Ascending(S \ {m})

\* reversed(seq)
Reversed(seq) == [i \in 1..Len(seq) |-> seq[Len(seq) + 1 - i]]

Iterate(S, order) == IF order = "asc" THEN Ascending(S) ELSE Reversed(Ascending(S))

\* sorted(seq) of a list of integers: insertion into a sorted prefix.
RECURSIVE Insert(_, _)
Insert(x, seq) ==
    IF seq = <<>> THEN <<x>>
    ELSE IF x <= Head(seq) THEN <<x>> \o seq
    ELSE <<Head(seq)>> \o Insert(x, Tail(seq))

RECURSIVE Sorted(_)
Sorted(seq) == IF seq = <<>> THEN <<>> ELSE Insert(Head(seq), Sorted(Tail(seq)))

\* Variant: problem_level_dict.get(i, 0), an unknown id shown as not rated.
DictGetDefaultZero(d, i) == IF i \in DOMAIN d THEN d[i] ELSE 0

\* problem_level_dict.get(i), line 192.
DictGet(d, i) == IF i \in DOMAIN d THEN d[i] ELSE None

\* Variant: sorted(levels) without reversed().
OrderAscending(levels) == Sorted(levels)

\* The order of line 193: reversed(sorted(levels)).
OrderLevels(levels) == Reversed(Sorted(levels))

\* Variant: the set of the levels, each level once.
LevelsOfDistinct(ids, d) == Ascending({DictGet(d, ids[i]) : i \in 1..Len(ids)})

\* The levels of line 192, one per element of the set of problem ids.
LevelsOf(ids, d) == [i \in 1..Len(ids) |-> DictGet(d, ids[i])]

\* _get_problem_levels, lines 183-195, on the set listed as ids.  sorted()
\* compares None with another element as soon as there are two elements
\* (TypeError); a lone None reaches LEVEL_REFERENCE[None] (KeyError), as does
\* a level without a label.
GetProblemLevels(ids, d) ==
    IF ids = <<>> THEN [err |-> "", levels |-> <<>>]
    ELSE LET levels == LevelsOf(ids, d) IN
         IF Len(levels) >= 2 /\ \E i \in 1..Len(levels) : levels[i] = None
         THEN [err |-> "TypeError", levels |-> <<>>]
         ELSE LET ordered == OrderLevels(levels) IN
              IF \E i \in 1..Len(ordered) : ordered[i] \notin 0..MaxLevel
              THEN [err |-> "KeyError", levels |-> <<>>]
              ELSE [err |-> "",
                    levels |-> [i \in 1..Len(ordered) |-> LEVEL_REFERENCE[ordered[i] + 1]]]

\* Lines 241-244: the Text of a cell, as the pieces appended to it.
RECURSIVE JoinLevels(_)
JoinLevels(levels) ==
    IF Len(levels) = 1 THEN <<levels[1]>>
    ELSE JoinLevels(SubSeq(levels, 1, Len(levels) - 1)) \o <<", ", levels[Len(levels)]>>

NoActivity == <<"-">>

\* Lines 233-244 for one day: the cell, or the exception that leaves view_table.
DayCell(date_to_problem_ids, day, d, order) ==
    IF day \notin DOMAIN date_to_problem_ids \/ date_to_problem_ids[day] = {}
    THEN [err |-> "", cell |-> NoActivity]
    ELSE LET got == GetProblemLevels(Iterate(date_to_problem_ids[day], order), d)
         IN  IF got.err # "" THEN [err |-> got.err, cell |-> <<>>]
             ELSE [err |-> "", cell |-> JoinLevels(got.levels)]

\* Lines 229-245 for one user: the cells of the row in the order of days.
RowCells(stats, days, d, order) ==
    LET date_to_problem_ids == GroupProblemIdsPerDay(stats)
    IN  [k \in 1..Len(days) |-> DayCell(date_to_problem_ids, days[k], d, order)]

\* The first exception of a row, "" if none.
RowError(cells) ==
    IF \E k \in 1..Len(cells) : cells[k].err # ""
    THEN cells[CHOOSE k \in 1..Len(cells) :
                 /\ cells[k].err # ""
                 /\ \A j \in 1..(k - 1) : cells[j].err = ""].err
    ELSE ""

\* view_table, lines 218-247, as one step: the clock is read, the headers and
\* the rows are built (the catalog is loaded by the first lookup), and the
\* table is printed unless a lookup raised.
ViewTable ==
    /\ pc = "view"
    /\ \E clock \in Nows, d \in Catalogs, order \in {"asc", "desc"} :
         LET today == GetToday(clock)
             days == Days(today)
             headers == [k \in 1..Len(days) |-> Strftime(days[k])]
             rows == [u \in 1..Len(user_statistics_list) |->
                        RowCells(user_statistics_list[u].stats, days, d, order)]
             errs == [u \in 1..Len(rows) |-> RowError(rows[u])]
             failed == {u \in 1..Len(rows) : errs[u] # ""}
         IN  /\ now' = clock
             /\ problem_level_dict' = d
             /\ set_order' = order
             /\ IF failed = {}
                THEN /\ table' = [headers |-> headers,
                                  rows |-> [u \in 1..Len(rows) |->
                                              [user |-> user_statistics_list[u].user,
                                               cells |-> [k \in 1..Len(days) |-> rows[u][k].cell]]],
                                  printed |-> TRUE]
                     /\ pc' = "viewed"
                     /\ error' = ""
                ELSE /\ table' = NoTable
                     /\ pc' = "raised"
                     /\ error' = errs[CHOOSE u \in failed : \A v \in failed : u <= v]
    /\ UNCHANGED <<max_fetch_size, time_to_problem_id, last_submit_id, left_page,
                   trsLeft, data, parse_last_id, fetches, top, prevMalformed,
                   lastRow, anyOk, observed, user_statistics_list>>

\* The argument of view_table as line 264 builds it: one map per user id, in
\* the order of USER_IDS.
InitView ==
    /\ pc = "view"
    /\ max_fetch_size = MAX_FETCH_SIZE
    /\ time_to_problem_id = EmptyDict
    /\ last_submit_id = NoCursor
    /\ left_page = 0
    /\ trsLeft = 0
    /\ data = EmptyDict
    /\ parse_last_id = NoCursor
    /\ error = ""
    /\ fetches = 0
    /\ top = NoCursor
    /\ prevMalformed = FALSE
    /\ lastRow = NoRow
    /\ anyOk = FALSE
    /\ observed = {}
    /\ user_statistics_list \in
         [1..Len(USER_IDS) -> {[user |-> u, stats |-> m] :
                                 u \in {USER_IDS[i] : i \in 1..Len(USER_IDS)},
                                 m \in ViewMaps}]
    /\ \A u \in 1..Len(USER_IDS) : user_statistics_list[u].user = USER_IDS[u]
    /\ now = 0
    /\ problem_level_dict = EmptyDict
    /\ set_order = "asc"
    /\ table = NoTable

NextView == ViewTable

SpecView == InitView /\ [][NextView]_vars

\* ================================================================== claims
Ended == pc \in {"done", "raised"}

BoundReached ==
    \/ fetches = MAX_FETCH_PAGE
    \/ Cardinality(DOMAIN time_to_problem_id) >= max_fetch_size

\* C1: in every run of get_time_to_problem_id the number of _get_page calls
\* never exceeds MAX_FETCH_PAGE.
C1_FetchBound == fetches <= MAX_FETCH_PAGE

C1_Witness == pc = "done" /\ fetches = MAX_FETCH_PAGE

\* C2: reaching a bound is the only stop condition: a run that has ended,
\* normally or on a page without data rows, has fetched MAX_FETCH_PAGE pages
\* or holds at least MAX_FETCH_SIZE keys; an empty page neither stops nor
\* aborts the loop.
C2_OnlyBoundsStop ==
    (Ended /\ (pc = "raised" => lastRow = NoRow)) => BoundReached

\* The canonical map of a set of observations: its keys are the observed
\* times, its value at a time the largest problem id observed at that time.
Canon(obs) ==
    [t \in {o[1] : o \in obs} |->
        CHOOSE p \in {o[2] : o \in {x \in obs : x[1] = t}} :
            \A o \in obs : o[1] = t => o[2] <= p]

\* C3: after every merge step, and in the returned map, the keys are exactly
\* the submission times of the parsable rows of the pages fetched so far and
\* each value is the maximum problem id observed at that time.
C3_CanonicalMap ==
    pc \in {"loop", "done"} => time_to_problem_id = Canon(observed)

C3_Witness ==
    /\ pc = "done"
    /\ fetches >= 2
    /\ \E o1 \in observed, o2 \in observed : o1[1] = o2[1] /\ o1[2] < o2[2]

\* The calendar date (day number) of an epoch second three hours east of UTC.
CalendarDate(t) == (t + 10800) \div 86400

\* The submission times of a map that fall on a date.
TimesOn(stats, date) == {t \in DOMAIN stats : CalendarDate(t) = date}

\* The k-th day of the window: k days before the current date of the zone.
WindowDay(k) == CalendarDate(now) - k

Window == 1..START_DATE_FROM_TODAY

\* C4: the printed table has one header per day of the window of
\* START_DATE_FROM_TODAY days ending yesterday, every row has one cell per
\* header, and the k-th cell is "-" exactly when the user's map has no
\* submission on the date of the k-th header.
C4_WindowCells ==
    table.printed =>
        /\ Len(table.headers) = START_DATE_FROM_TODAY
        /\ \A k \in Window : table.headers[k] = Strftime(WindowDay(k))
        /\ Len(table.rows) = Len(user_statistics_list)
        /\ \A u \in 1..Len(table.rows) :
             /\ table.rows[u].user = user_statistics_list[u].user
             /\ Len(table.rows[u].cells) = START_DATE_FROM_TODAY
             /\ \A k \in Window :
                  (table.rows[u].cells[k] = NoActivity)
                      <=> (TimesOn(user_statistics_list[u].stats, WindowDay(k)) = {})

\* One submission two days ago: only the second cell is not "-".
C4_Witness ==
    /\ table.printed
    /\ \E u \in 1..Len(table.rows) :
         /\ Cardinality(DOMAIN user_statistics_list[u].stats) = 1
         /\ TimesOn(user_statistics_list[u].stats, WindowDay(2)) # {}
         /\ table.rows[u].cells[2] # NoActivity
         /\ \A k \in Window \ {2} : table.rows[u].cells[k] = NoActivity

\* The distinct problem ids of user u on the k-th day of the window.
DayProblems(u, k) ==
    {user_statistics_list[u].stats[t] :
        t \in TimesOn(user_statistics_list[u].stats, WindowDay(k))}

UnknownInWindow ==
    \E u \in 1..Len(user_statistics_list), k \in Window :
        \E p \in DayProblems(u, k) : p \notin DOMAIN problem_level_dict

\* C5: when the set of problem ids of a day of the report holds an id that is
\* absent from the catalog, view_table ends with an exception and prints no
\* table, whatever the size of the set and the place of the unknown id in it.
C5_UnknownIdFails ==
    (pc \in {"viewed", "raised"} /\ UnknownInWindow) =>
        /\ pc = "raised"
        /\ error \in {"KeyError", "TypeError"}
        /\ ~table.printed

\* A day with a known and an unknown id, the unknown one iterated last.
C5_Witness ==
    /\ pc = "raised"
    /\ ~table.printed
    /\ set_order = "asc"
    /\ \E u \in 1..Len(user_statistics_list), k \in Window :
         /\ Cardinality(DayProblems(u, k)) = 2
         /\ \E p \in DayProblems(u, k), q \in DayProblems(u, k) :
              p < q /\ p \in DOMAIN problem_level_dict /\ q \notin DOMAIN problem_level_dict

\* The labels of a cell with activity, left to right (the pieces between the
\* ", " separators), and the level a label stands for.
Labels(cell) == [i \in 1..((Len(cell) + 1) \div 2) |-> cell[2 * i - 1]]

LevelOfLabel(label) == CHOOSE l \in 0..MaxLevel : LEVEL_REFERENCE[l + 1] = label

ActiveCells ==
    {table.rows[u].cells[k] : u \in 1..Len(table.rows), k \in Window} \ {NoActivity}

\* C6: in every cell with activity of the printed table the levels, read left
\* to right, are in non-increasing numeric order.
C6_NonIncreasing ==
    table.printed =>
        \A cell \in ActiveCells :
            \A i \in 1..Len(Labels(cell)), j \in 1..Len(Labels(cell)) :
                i < j => LevelOfLabel(Labels(cell)[i]) >= LevelOfLabel(Labels(cell)[j])

\* Two problems of different levels, the one of the lower level iterated first.
C6_Witness ==
    /\ table.printed
    /\ set_order = "asc"
    /\ \E u \in 1..Len(table.rows), k \in Window :
         /\ Cardinality(DayProblems(u, k)) = 2
         /\ \E p \in DayProblems(u, k), q \in DayProblems(u, k) :
              p < q /\ problem_level_dict[p] < problem_level_dict[q]
         /\ LevelOfLabel(table.rows[u].cells[k][1])
                > LevelOfLabel(table.rows[u].cells[k][3])

\* C7 as stated: every level appears at most once in a cell.
C7_LevelsDistinct ==
    table.printed =>
        \A cell \in ActiveCells :
            \A i \in 1..Len(Labels(cell)), j \in 1..Len(Labels(cell)) :
                i # j => Labels(cell)[i] # Labels(cell)[j]

\* C7, amended: a cell with activity holds one label per distinct problem of
\* its day, so a level appears as many times as distinct problems of that day
\* have it.
C7_OneLabelPerProblem ==
    table.printed =>
        \A u \in 1..Len(table.rows), k \in Window :
            table.rows[u].cells[k] # NoActivity =>
                LET labels == Labels(table.rows[u].cells[k]) IN
                \A l \in 0..MaxLevel :
                    Cardinality({i \in 1..Len(labels) : labels[i] = LEVEL_REFERENCE[l + 1]})
                        = Cardinality({p \in DayProblems(u, k) : problem_level_dict[p] = l})

\* Two distinct problems of one day with the same level: the label twice.
C7_Witness ==
    /\ table.printed
    /\ \E u \in 1..Len(table.rows), k \in Window :
         /\ Cardinality(DayProblems(u, k)) = 2
         /\ Len(table.rows[u].cells[k]) = 3
         /\ table.rows[u].cells[k][1] = table.rows[u].cells[k][3]

\* C8: _parse_time_to_problem_id does not raise on a page that has no
\* parsable data row (no data rows, or only malformed or blank ones).
C8_NoParsableRowReturns == ~(pc = "raised" /\ trsLeft = 0 /\ ~anyOk)

\* C9: the first fetch uses the empty cursor, and every later fetch uses the
\* sequence id of the last row of the page before it whenever that row
\* exposes one, parsed into the map or not.
C9_CursorChain ==
    [][(pc = "loop" /\ pc' = "parse") =>
          /\ fetches = 0 => top' = NoCursor
          /\ (fetches > 0 /\ lastRow.seq.k = "int") => top' = <<lastRow.seq.v>>]_vars

\* A later fetch after a page whose last row exposed an id and was skipped.
C9_Witness == pc = "parse" /\ fetches >= 2 /\ prevMalformed /\ top # NoCursor

\* C10: a row that lacks one of its three fields is skipped and the page is
\* not aborted: no run ends in the exception that reading such a row raised.
C10_MalformedRowSkipped == ~(pc = "raised" /\ error \in {"KeyError", "TypeError"})

====
